---- MODULE Spec2Model ----
(***************************************************************************)
(* Model of starport/services/chain/build.go: Chain.Build, Chain.build,    *)
(* Chain.BuildRelease, Chain.preBuild and Chain.discoverMain.              *)
(*                                                                         *)
(* A path is a sequence of components (the empty sequence is the empty     *)
(* string ""), an error is a chain of links, outermost first (the empty    *)
(* chain is nil), a target token is a sequence of words and ":" marks.     *)
(***************************************************************************)
EXTENDS Integers, Sequences, FiniteSets, TLC

VARIABLES call, pc, args, prefix, targets, conf, mains, files, dirs,
          buildFlags, binary, mainPath, releasePath, idx, goos, goarch,
          out, tmpDirs, deferred, nextTmp, compiles, archives, log,
          ret, calls, prev, files0, dirs0

vars == <<call, pc, args, prefix, targets, conf, mains, files, dirs,
          buildFlags, binary, mainPath, releasePath, idx, goos, goarch,
          out, tmpDirs, deferred, nextTmp, compiles, archives, log,
          ret, calls, prev, files0, dirs0>>

---------------------------------------------------------------------------
(* Bounds of the model.                                                    *)

MaxCalls == 2
MaxTargets == 2

---------------------------------------------------------------------------
(* Program constants and the project (c.app, c.sourceVersion).             *)

releaseDir == "release"
checksumTxt == "checksum.txt"

AppName == "mars"
AppPath == <<"app">>
AppImportPath == "github.com/x/mars"
SourceTag == "v1"
SourceHash == "abc"
ChainIDValue == "mars-1"

HostOS == "linux"
HostArch == "arm64"

Sep == ":"

---------------------------------------------------------------------------
(* Errors: chains of links, as errors.Is / errors.As walk them.            *)

NoErr == <<>>

Link(t, op) == [t |-> t, op |-> op]

Leaf(t, op) == <<Link(t, op)>>

\* exec.Exec wraps what the runner returns in *exec.Error; a non-zero exit
\* is an *exec.ExitError below it, anything else (the binary cannot be
\* started) is not.
ExitFailure(op) == <<Link("exec.Error", op), Link("ExitError", op)>>
StartFailure(op) == <<Link("exec.Error", op), Link("StartError", op)>>
SubprocessFailures(op) == {ExitFailure(op), StartFailure(op)}

\* What a collaborator that is handed a cancelled ctx returns: the context's
\* error below *exec.Error, no *exec.ExitError in the chain.
CancelFailure(op) == <<Link("exec.Error", op), Link("context.Canceled", op)>>

ErrMultipleMainPackagesFound == Leaf("ErrMultipleMainPackagesFound", "DiscoverOneMain")
ErrMainNotFound == Leaf("ErrMainNotFound", "DiscoverOneMain")

ErrorsAs(e, t) == \E i \in DOMAIN e : e[i].t = t

ErrorsIs(e, target) == \E i \in DOMAIN e : e[i] = target[1]

ErrorsWrap(e, msg) == <<Link("withMessage", msg)>> \o e

---------------------------------------------------------------------------
(* Paths (path/filepath).                                                  *)

CleanStep(acc, c) ==
    IF c = "." \/ c = "" THEN acc
    ELSE IF c = ".." /\ Len(acc) > 0 /\ acc[Len(acc)] # ".."
         THEN SubSeq(acc, 1, Len(acc) - 1)
         ELSE Append(acc, c)

RECURSIVE CleanFrom(_, _)
CleanFrom(acc, p) ==
    IF p = <<>> THEN acc ELSE CleanFrom(CleanStep(acc, Head(p)), Tail(p))

\* filepath.Join: the elements joined, then cleaned.
Join(a, b) == CleanFrom(<<>>, a \o b)

IsPrefix(p, q) == Len(p) <= Len(q) /\ SubSeq(q, 1, Len(p)) = p

Parent(p) == SubSeq(p, 1, Len(p) - 1)

Base(p) == p[Len(p)]

---------------------------------------------------------------------------
(* gocmd: targets, flags.                                                  *)

FlagMod == "-mod"
FlagModValueReadOnly == "readonly"
FlagLdflags == "-ldflags"
EnvGOOS == "GOOS"
EnvGOARCH == "GOARCH"

\* strings.Split(t, ":") on a token given as words and separators.
RECURSIVE SplitFrom(_, _)
SplitFrom(parts, t) ==
    IF t = <<>> THEN parts
    ELSE IF Head(t) = Sep
         THEN SplitFrom(Append(parts, ""), Tail(t))
         ELSE SplitFrom([parts EXCEPT ![Len(parts)] = @ \o Head(t)], Tail(t))

Split(t) == SplitFrom(<<"">>, t)

ErrInvalidTarget == Leaf("ErrInvalidTarget", "ParseTarget")

ParseTarget(t) ==
    LET parsed == Split(t) IN
    IF Len(parsed) # 2
    THEN [goos |-> "", goarch |-> "", err |-> ErrInvalidTarget]
    ELSE [goos |-> parsed[1], goarch |-> parsed[2], err |-> NoErr]

BuildTarget(os, arch) == <<os, Sep, arch>>

RECURSIVE JoinWith(_, _)
JoinWith(ss, sep) ==
    IF ss = <<>> THEN ""
    ELSE IF Len(ss) = 1 THEN ss[1]
    ELSE ss[1] \o sep \o JoinWith(Tail(ss), sep)

Ldflags(flags) == JoinWith(flags, " ")

\* strings.Title on the application names of the model.
Title(s) == CASE s = "mars" -> "Mars" [] OTHER -> s

\* c.app.D()
AppD == AppName \o "d"

TarName(pfx, os, arch) == pfx \o "_" \o os \o "_" \o arch \o ".tar.gz"

BuildEnv(os, arch) == <<[k |-> EnvGOOS, v |-> os], [k |-> EnvGOARCH, v |-> arch]>>

\* preBuild, lines 176-187.
InjectedLdFlags(chainID) ==
    << "-X github.com/cosmos/cosmos-sdk/version.Name=" \o Title(AppName),
       "-X github.com/cosmos/cosmos-sdk/version.AppName=" \o AppName \o "d",
       "-X github.com/cosmos/cosmos-sdk/version.Version=" \o SourceTag,
       "-X github.com/cosmos/cosmos-sdk/version.Commit=" \o SourceHash,
       "-X " \o AppImportPath \o "/cmd/" \o AppD \o "/cmd.ChainID=" \o chainID >>

\* The injected pairs put before the configured flags.
AssembleLdFlags_InjectedFirst(config, chainID) ==
    InjectedLdFlags(chainID) \o config.LDFlags

AssembleLdFlags(config, chainID) == config.LDFlags \o InjectedLdFlags(chainID)

AssembleBuildFlags(config, chainID) ==
    << FlagMod, FlagModValueReadOnly,
       FlagLdflags, Ldflags(AssembleLdFlags(config, chainID)) >>

---------------------------------------------------------------------------
(* The file system: files maps a file's path to its content, dirs is the   *)
(* set of directories.  A content records the call that wrote it, whether  *)
(* the write was completed, and (for a manifest) the names it references.  *)

Content(by, full, refs) == [by |-> by, full |-> full, refs |-> refs]

OldContent == Content(0, TRUE, {})

Under(p, fs) == {f \in fs : IsPrefix(p, f)}

\* os.RemoveAll(p): p and everything below it.
RemoveAllFiles(p, fs) == [f \in (DOMAIN fs) \ Under(p, DOMAIN fs) |-> fs[f]]
RemoveAllDirs(p, ds) == ds \ Under(p, ds)

\* os.MkdirAll(p): p and its missing parents.
MkdirAllDirs(p, ds) == ds \cup {SubSeq(p, 1, n) : n \in 1..Len(p)}

\* The names of the entries of directory d.
DirEntries(d, fs) == {Base(f) : f \in {g \in DOMAIN fs : Len(g) > 0 /\ Parent(g) = d}}

WriteFile(f, c, fs) == (f :> c) @@ fs

---------------------------------------------------------------------------
(* Inputs of the model.                                                    *)

Tokens == { <<"linux", Sep, "amd64">>, <<"darwin", Sep, "arm64">>, <<"linux">> }

RECURSIVE SeqsUpTo(_, _)
SeqsUpTo(S, n) ==
    IF n = 0 THEN {<<>>}
    ELSE LET shorter == SeqsUpTo(S, n - 1) IN
         shorter \cup {Append(q, x) : q \in shorter, x \in S}

TargetLists == SeqsUpTo(Tokens, MaxTargets)

Prefixes == {"", "foo"}

DefaultReleasePath == Join(AppPath, <<releaseDir>>)

Outputs == {<<>>, <<"dist">>}

\* config.Build: no linker flags and no entry-point path, or both set.
Configs ==
    { [LDFlags |-> <<>>, Main |-> <<>>],
      [LDFlags |-> <<"-s -w", "-X main.x=1">>, Main |-> <<"cmd", "marsd">>] }

MainCounts == 0..2

StaleName == "old_linux_amd64.tar.gz"

FreshDisk == [files |-> <<>>, dirs |-> {AppPath}]

StaleDisk ==
    [files |-> (Join(DefaultReleasePath, <<StaleName>>) :> OldContent)
               @@ (Join(<<"dist">>, <<StaleName>>) :> OldContent)
               @@ (Join(<<"dist">>, <<checksumTxt>>) :> Content(0, TRUE, {StaleName})),
     dirs |-> {AppPath, DefaultReleasePath, <<"dist">>}]

Disks == {FreshDisk, StaleDisk}

NoRet == [path |-> <<>>, binary |-> "", err |-> NoErr]

NoPrev == [call |-> "none", args |-> <<>>, ok |-> FALSE, refs |-> {}]

Event(op, ok) == [op |-> op, ok |-> ok]

Init ==
    /\ call = "none"
    /\ pc = "idle"
    /\ args = <<>>
    /\ prefix = ""
    /\ targets = <<>>
    /\ conf \in Configs
    /\ mains \in MainCounts
    /\ \E d \in Disks : files = d.files /\ dirs = d.dirs
    /\ buildFlags = <<>>
    /\ binary = ""
    /\ mainPath = <<>>
    /\ releasePath = <<>>
    /\ idx = 0
    /\ goos = ""
    /\ goarch = ""
    /\ out = <<>>
    /\ tmpDirs = {}
    /\ deferred = <<>>
    /\ nextTmp = 0
    /\ compiles = <<>>
    /\ archives = <<>>
    /\ log = <<>>
    /\ ret = NoRet
    /\ calls = 0
    /\ prev = NoPrev
    /\ files0 = files
    /\ dirs0 = dirs

---------------------------------------------------------------------------
(* Outcomes of the collaborators (nil or an error).                        *)

\* ctx has been cancelled during the call in progress.
CtxDone == \E i \in DOMAIN log : log[i] = Event("cancel", TRUE)

\* The outcomes of a collaborator that takes ctx: once ctx is cancelled it
\* does no work and fails with the context's error.
CtxOutcomes(done, outcomes, op) == IF done THEN {CancelFailure(op)} ELSE outcomes

SetupOutcomes == {NoErr, Leaf("SetupError", "setup")}
GenerateOutcomes == {NoErr, Leaf("GenerateError", "generateAll")}
ConfigOutcomes == {NoErr, Leaf("ConfigError", "Config")}
IDOutcomes == {NoErr, Leaf("ChainIDError", "ID")}
BinaryOutcomes == {NoErr, Leaf("BinaryError", "Binary")}
ModTidyOutcomes == {NoErr} \cup SubprocessFailures("ModTidy")
ModVerifyOutcomes == {NoErr} \cup SubprocessFailures("ModVerify")
BuildPathOutcomes == {NoErr} \cup SubprocessFailures("BuildPath")
RemoveAllOutcomes == {NoErr, Leaf("PathError", "RemoveAll")}
MkdirAllOutcomes == {NoErr, Leaf("PathError", "MkdirAll")}
MkdirTempOutcomes == {NoErr, Leaf("PathError", "MkdirTemp")}
TarOutcomes == {NoErr, Leaf("ArchiveError", "Tar")}
CreateOutcomes == {NoErr, Leaf("PathError", "Create")}
CopyOutcomes == {NoErr, Leaf("CopyError", "Copy")}
SumOutcomes == {NoErr, Leaf("ChecksumError", "Sum")}

\* The outcomes of the collaborators of preBuild; one that is not reached,
\* because an earlier one failed, has no outcome of its own.
PreBuildOutcomes(done) ==
    {o \in [config : ConfigOutcomes, id : IDOutcomes,
            tidy : {NoErr} \cup CtxOutcomes(done, ModTidyOutcomes, "ModTidy"),
            verify : {NoErr} \cup CtxOutcomes(done, ModVerifyOutcomes, "ModVerify")] :
        /\ (done /\ o.config = NoErr /\ o.id = NoErr) => o.tidy # NoErr
        /\ o.config # NoErr => o.id = NoErr
        /\ o.id # NoErr => o.tidy = NoErr
        /\ o.tidy # NoErr => o.verify = NoErr
        /\ o.config # NoErr => o.tidy = NoErr /\ o.verify = NoErr
        /\ o.id # NoErr => o.verify = NoErr}

---------------------------------------------------------------------------
(* The functions of build.go as operators.                                 *)

\* buildDefer without the errors.Is test of line 44.
buildDefer_ExitOnly(err) ==
    IF ErrorsAs(err, "ExitError")
    THEN <<Link("CannotBuildAppError", "build")>> \o err
    ELSE err

\* build, lines 41-47: the deferred reclassification.
buildDefer(err) ==
    IF ErrorsAs(err, "ExitError") \/ ErrorsIs(err, ErrMultipleMainPackagesFound)
    THEN <<Link("CannotBuildAppError", "build")>> \o err
    ELSE err

\* preBuild without the test of line 191: a failed tidy is passed over.
preBuild_IgnoreTidy(config, o) ==
    IF o.config # NoErr
    THEN [buildFlags |-> <<>>, err |-> o.config,
          events |-> <<Event("Config", FALSE)>>]
    ELSE IF o.id # NoErr
    THEN [buildFlags |-> <<>>, err |-> o.id,
          events |-> <<Event("Config", TRUE), Event("ID", FALSE)>>]
    ELSE IF o.verify # NoErr
    THEN [buildFlags |-> <<>>, err |-> o.verify,
          events |-> <<Event("Config", TRUE), Event("ID", TRUE),
                       Event("ModTidy", o.tidy = NoErr), Event("ModVerify", FALSE)>>]
    ELSE [buildFlags |-> AssembleBuildFlags(config, ChainIDValue), err |-> NoErr,
          events |-> <<Event("Config", TRUE), Event("ID", TRUE),
                       Event("ModTidy", o.tidy = NoErr), Event("ModVerify", TRUE)>>]

\* preBuild, lines 165-201; o gives the outcome of each collaborator.
preBuild(config, o) ==
    IF o.config # NoErr
    THEN [buildFlags |-> <<>>, err |-> o.config,
          events |-> <<Event("Config", FALSE)>>]
    ELSE IF o.id # NoErr
    THEN [buildFlags |-> <<>>, err |-> o.id,
          events |-> <<Event("Config", TRUE), Event("ID", FALSE)>>]
    ELSE IF o.tidy # NoErr
    THEN [buildFlags |-> <<>>, err |-> o.tidy,
          events |-> <<Event("Config", TRUE), Event("ID", TRUE),
                       Event("ModTidy", FALSE)>>]
    ELSE IF o.verify # NoErr
    THEN [buildFlags |-> <<>>, err |-> o.verify,
          events |-> <<Event("Config", TRUE), Event("ID", TRUE),
                       Event("ModTidy", TRUE), Event("ModVerify", FALSE)>>]
    ELSE [buildFlags |-> AssembleBuildFlags(config, ChainIDValue), err |-> NoErr,
          events |-> <<Event("Config", TRUE), Event("ID", TRUE),
                       Event("ModTidy", TRUE), Event("ModVerify", TRUE)>>]

\* goanalysis.DiscoverOneMain(path) over a tree holding n main packages.
DiscoverOneMain(path, n) ==
    IF n = 0 THEN [path |-> <<>>, err |-> ErrMainNotFound]
    ELSE IF n = 1 THEN [path |-> Join(path, <<"cmd", AppD>>), err |-> NoErr]
    ELSE [path |-> <<>>, err |-> ErrMultipleMainPackagesFound]

\* discoverMain without the test of conf.Build.Main, line 209.
discoverMain_ScanAlways(config, cfgErr, path, n) ==
    IF cfgErr # NoErr
    THEN [pkgPath |-> <<>>, err |-> cfgErr, events |-> <<Event("Config", FALSE)>>]
    ELSE LET found == DiscoverOneMain(path, n) IN
         [pkgPath |-> found.path, err |-> found.err,
          events |-> <<Event("Config", TRUE),
                       Event("DiscoverOneMain", found.err = NoErr)>>]

\* discoverMain, lines 203-218.
discoverMain(config, cfgErr, path, n) ==
    IF cfgErr # NoErr
    THEN [pkgPath |-> <<>>, err |-> cfgErr, events |-> <<Event("Config", FALSE)>>]
    ELSE IF config.Main # <<>>
    THEN [pkgPath |-> Join(AppPath, config.Main), err |-> NoErr,
          events |-> <<Event("Config", TRUE)>>]
    ELSE LET found == DiscoverOneMain(path, n) IN
         IF found.err = ErrMultipleMainPackagesFound
         THEN [pkgPath |-> <<>>,
               err |-> ErrorsWrap(found.err, "specify build.main"),
               events |-> <<Event("Config", TRUE), Event("DiscoverOneMain", FALSE)>>]
         ELSE [pkgPath |-> found.path, err |-> found.err,
               events |-> <<Event("Config", TRUE),
                            Event("DiscoverOneMain", found.err = NoErr)>>]

\* BuildRelease without lines 75-77.
DefaultPrefix_Keep(pfx) == pfx

\* BuildRelease, lines 75-80.
DefaultPrefix(pfx) == IF pfx = "" THEN AppName ELSE pfx

\* BuildRelease without lines 78-80.
DefaultTargets_Keep(tgts) == tgts

DefaultTargets(tgts) ==
    IF Len(tgts) = 0 THEN <<BuildTarget(HostOS, HostArch)>> ELSE tgts

\* BuildRelease, lines 102-104.
ResolveReleasePath(output) ==
    IF output = <<>> THEN Join(AppPath, <<releaseDir>>) ELSE output

\* The reset of line 106 done for no directory, or for every directory.
ResetsReleaseDir_Never(output) == FALSE

ResetsReleaseDir_Always(output) == TRUE

\* BuildRelease, lines 103-109: the default release directory alone is reset.
ResetsReleaseDir(output) == output = <<>>

\* BuildRelease, lines 144-145.
TarPath(relPath, pfx, os, arch) == Join(relPath, <<TarName(pfx, os, arch)>>)

\* checksum.Sum(dirPath, outPath): one line per entry of dirPath.
Sum(dirPath, outPath, by, fs) ==
    WriteFile(outPath, Content(by, TRUE, DirEntries(dirPath, fs)), fs)

---------------------------------------------------------------------------
(* Actions.  A session is a first call of Build or BuildRelease with any   *)
(* arguments, then repetitions of that call with the same arguments.       *)

env == <<conf, mains>>
disk == <<files, dirs>>
snapshot == <<files0, dirs0>>
callVars == <<call, args, prefix, targets, calls, prev>>
locals == <<buildFlags, binary, mainPath, releasePath, idx, goos, goarch, out>>
temps == <<tmpDirs, deferred>>

Range(q) == {q[i] : i \in DOMAIN q}

\* A return that runs only the deferred call registered last.
RunDeferred_LastOnly(tmps, dfr) ==
    IF dfr = <<>> THEN tmps ELSE tmps \ {Head(dfr)}

\* The deferred calls of BuildRelease, run by a return statement: line 126,
\* os.RemoveAll(out) for every temporary directory created so far (line 151,
\* tarf.Close(), changes nothing the model holds).
RunDeferred(tmps, dfr) == tmps \ Range(dfr)

\* A return statement: the deferred calls run, then the caller resumes.
Return(path, bin, err) ==
    /\ ret' = [path |-> path, binary |-> bin, err |-> err]
    /\ tmpDirs' = RunDeferred(tmpDirs, deferred)
    /\ deferred' = <<>>
    /\ pc' = "returned"

Continue(next) ==
    /\ pc' = next
    /\ UNCHANGED <<ret, temps>>

\* Build(ctx, output), entry.
EnterBuild(output) ==
    /\ pc = "idle"
    /\ calls < MaxCalls
    /\ call' = "Build"
    /\ calls' = calls + 1
    /\ args' = [output |-> output, prefix |-> "", targets |-> <<>>]
    /\ files0' = files
    /\ dirs0' = dirs
    /\ pc' = "setup"
    /\ UNCHANGED <<prefix, targets, prev, env, disk, locals, temps, nextTmp,
                   compiles, archives, log, ret>>

\* BuildRelease(ctx, output, prefix, targets...), lines 74-80.
EnterBuildRelease(output, pfx, tgts) ==
    /\ pc = "idle"
    /\ calls < MaxCalls
    /\ call' = "BuildRelease"
    /\ calls' = calls + 1
    /\ args' = [output |-> output, prefix |-> pfx, targets |-> tgts]
    /\ prefix' = DefaultPrefix(pfx)
    /\ targets' = DefaultTargets(tgts)
    /\ files0' = files
    /\ dirs0' = dirs
    /\ pc' = "setup"
    /\ UNCHANGED <<prev, env, disk, locals, temps, nextTmp, compiles, archives,
                   log, ret>>

CallBuild(output) ==
    /\ calls = 0
    /\ EnterBuild(output)

CallBuildRelease(output, pfx, tgts) ==
    /\ calls = 0
    /\ EnterBuildRelease(output, pfx, tgts)

\* The caller repeats its previous call with identical arguments.
CallAgain ==
    /\ calls > 0
    /\ IF prev.call = "Build"
       THEN EnterBuild(prev.args.output)
       ELSE EnterBuildRelease(prev.args.output, prev.args.prefix, prev.args.targets)

\* c.setup(): Build lines 29-31, BuildRelease lines 83-85.
Setup ==
    /\ pc = "setup"
    /\ \E e \in SetupOutcomes :
         /\ log' = Append(log, Event("setup", e = NoErr))
         /\ IF e = NoErr
            THEN Continue(IF call = "Build" THEN "generate" ELSE "preBuild")
            ELSE Return(<<>>, "", e)
    /\ UNCHANGED <<callVars, env, disk, snapshot, locals, nextTmp, compiles, archives>>

\* build, lines 49-51.
GenerateAll ==
    /\ pc = "generate"
    /\ \E e \in CtxOutcomes(CtxDone, GenerateOutcomes, "generateAll") :
         /\ log' = Append(log, Event("generateAll", e = NoErr))
         /\ IF e = NoErr
            THEN Continue("preBuild")
            ELSE Return(<<>>, "", buildDefer(e))
    /\ UNCHANGED <<callVars, env, disk, snapshot, locals, nextTmp, compiles, archives>>

\* c.preBuild(ctx): build lines 53-56, BuildRelease lines 87-90.
PreBuild ==
    /\ pc = "preBuild"
    /\ \E o \in PreBuildOutcomes(CtxDone) :
         LET r == preBuild(conf, o) IN
         /\ log' = log \o r.events
         /\ buildFlags' = r.buildFlags
         /\ IF r.err = NoErr
            THEN Continue("binary")
            ELSE Return(<<>>, "", IF call = "Build" THEN buildDefer(r.err) ELSE r.err)
    /\ UNCHANGED <<callVars, env, disk, snapshot, binary, mainPath, releasePath,
                   idx, goos, goarch, out, nextTmp, compiles, archives>>

\* c.Binary(): build lines 58-61, BuildRelease lines 92-95.
Binary ==
    /\ pc = "binary"
    /\ \E e \in BinaryOutcomes :
         /\ log' = Append(log, Event("Binary", e = NoErr))
         /\ IF e = NoErr
            THEN binary' = AppD /\ Continue("discoverMain")
            ELSE /\ Return(<<>>, "", IF call = "Build" THEN buildDefer(e) ELSE e)
                 /\ UNCHANGED binary
    /\ UNCHANGED <<callVars, env, disk, snapshot, buildFlags, mainPath, releasePath,
                   idx, goos, goarch, out, nextTmp, compiles, archives>>

\* Lines 97-100 placed after the reset of the release directory (lines
\* 102-109): the directory is emptied before the entry point is resolved.
DiscoverMain_AfterReset ==
    /\ pc = "discoverMain"
    /\ \E cfgErr \in ConfigOutcomes :
         LET r == discoverMain(conf, cfgErr, AppPath, mains) IN
         /\ log' = log \o r.events
         /\ mainPath' = r.pkgPath
         /\ IF r.err = NoErr
            THEN Continue(IF call = "Build" THEN "buildPath" ELSE "resetReleaseDir")
            ELSE Return(<<>>, "", IF call = "Build" THEN buildDefer(r.err) ELSE r.err)
    /\ IF call = "BuildRelease" /\ ResetsReleaseDir(args.output)
       THEN /\ files' = RemoveAllFiles(ResolveReleasePath(args.output), files)
            /\ dirs' = RemoveAllDirs(ResolveReleasePath(args.output), dirs)
       ELSE UNCHANGED disk
    /\ UNCHANGED <<callVars, env, snapshot, buildFlags, binary, releasePath,
                   idx, goos, goarch, out, nextTmp, compiles, archives>>

\* c.discoverMain(c.app.Path): build lines 63-66, BuildRelease lines 97-100.
DiscoverMain ==
    /\ pc = "discoverMain"
    /\ \E cfgErr \in ConfigOutcomes :
         LET r == discoverMain(conf, cfgErr, AppPath, mains) IN
         /\ log' = log \o r.events
         /\ mainPath' = r.pkgPath
         /\ IF r.err = NoErr
            THEN Continue(IF call = "Build" THEN "buildPath" ELSE "resetReleaseDir")
            ELSE Return(<<>>, "", IF call = "Build" THEN buildDefer(r.err) ELSE r.err)
    /\ UNCHANGED <<callVars, env, disk, snapshot, buildFlags, binary, releasePath,
                   idx, goos, goarch, out, nextTmp, compiles, archives>>

\* build, line 68, and the return of build into Build, lines 33-35.
BuildPath ==
    /\ pc = "buildPath"
    /\ \E e \in CtxOutcomes(CtxDone, BuildPathOutcomes, "BuildPath") :
         /\ log' = Append(log, Event("BuildPath", e = NoErr))
         /\ compiles' = Append(compiles,
               [out |-> args.output, binary |-> binary, path |-> mainPath,
                flags |-> buildFlags, env |-> <<>>])
         /\ IF e = NoErr
            THEN Continue("binaryName")
            ELSE Return(<<>>, "", buildDefer(e))
    /\ UNCHANGED <<callVars, env, disk, snapshot, locals, nextTmp, archives>>

\* Build, line 37.
BinaryName ==
    /\ pc = "binaryName"
    /\ \E e \in BinaryOutcomes :
         /\ log' = Append(log, Event("Binary", e = NoErr))
         /\ Return(<<>>, IF e = NoErr THEN AppD ELSE "", e)
    /\ UNCHANGED <<callVars, env, disk, snapshot, locals, nextTmp, compiles, archives>>

\* BuildRelease, lines 102-109.
ResetReleaseDir ==
    /\ pc = "resetReleaseDir"
    /\ releasePath' = ResolveReleasePath(args.output)
    /\ IF ResetsReleaseDir(args.output)
       THEN \E e \in RemoveAllOutcomes :
              /\ log' = Append(log, Event("RemoveAll", e = NoErr))
              /\ IF e = NoErr
                 THEN /\ files' = RemoveAllFiles(releasePath', files)
                      /\ dirs' = RemoveAllDirs(releasePath', dirs)
                      /\ Continue("makeReleaseDir")
                 ELSE /\ Return(<<>>, "", e)
                      /\ UNCHANGED disk
       ELSE /\ Continue("makeReleaseDir")
            /\ UNCHANGED <<log, disk>>
    /\ UNCHANGED <<callVars, env, snapshot, buildFlags, binary, mainPath,
                   idx, goos, goarch, out, nextTmp, compiles, archives>>

\* BuildRelease, lines 111-113, and the entry of the loop of line 115.
MakeReleaseDir ==
    /\ pc = "makeReleaseDir"
    /\ \E e \in MkdirAllOutcomes :
         /\ log' = Append(log, Event("MkdirAll", e = NoErr))
         /\ IF e = NoErr
            THEN /\ dirs' = MkdirAllDirs(releasePath, dirs)
                 /\ idx' = 1
                 /\ Continue("parseTarget")
            ELSE /\ Return(<<>>, "", e)
                 /\ UNCHANGED <<dirs, idx>>
    /\ UNCHANGED <<callVars, env, snapshot, files, buildFlags, binary, mainPath,
                   releasePath, goos, goarch, out, nextTmp, compiles, archives>>

\* Lines 117-120 without the test of err.
ParseTargetStep_Unchecked ==
    /\ pc = "parseTarget"
    /\ idx <= Len(targets)
    /\ LET r == ParseTarget(targets[idx]) IN
         /\ log' = Append(log, Event("ParseTarget", r.err = NoErr))
         /\ goos' = r.goos
         /\ goarch' = r.goarch
         /\ Continue("mkdirTemp")
    /\ UNCHANGED <<callVars, env, disk, snapshot, buildFlags, binary, mainPath,
                   releasePath, idx, out, nextTmp, compiles, archives>>

\* BuildRelease, lines 115-120.
ParseTargetStep ==
    /\ pc = "parseTarget"
    /\ idx <= Len(targets)
    /\ LET r == ParseTarget(targets[idx]) IN
         /\ log' = Append(log, Event("ParseTarget", r.err = NoErr))
         /\ goos' = r.goos
         /\ goarch' = r.goarch
         /\ IF r.err = NoErr
            THEN Continue("mkdirTemp")
            ELSE Return(<<>>, "", r.err)
    /\ UNCHANGED <<callVars, env, disk, snapshot, buildFlags, binary, mainPath,
                   releasePath, idx, out, nextTmp, compiles, archives>>

\* BuildRelease, lines 122-126.
MkdirTemp ==
    /\ pc = "mkdirTemp"
    /\ \E e \in MkdirTempOutcomes :
         /\ log' = Append(log, Event("MkdirTemp", e = NoErr))
         /\ IF e = NoErr
            THEN LET dir == <<"tmp", ToString(nextTmp)>> IN
                 /\ out' = dir
                 /\ tmpDirs' = tmpDirs \cup {dir}
                 /\ deferred' = <<dir>> \o deferred
                 /\ nextTmp' = nextTmp + 1
                 /\ pc' = "compile"
                 /\ UNCHANGED ret
            ELSE /\ Return(<<>>, "", e)
                 /\ UNCHANGED <<out, nextTmp>>
    /\ UNCHANGED <<callVars, env, disk, snapshot, buildFlags, binary, mainPath,
                   releasePath, idx, goos, goarch, compiles, archives>>

\* BuildRelease, lines 128-137.
Compile ==
    /\ pc = "compile"
    /\ \E e \in CtxOutcomes(CtxDone, BuildPathOutcomes, "BuildPath") :
         /\ log' = Append(log, Event("BuildPath", e = NoErr))
         /\ compiles' = Append(compiles,
               [out |-> out, binary |-> binary, path |-> mainPath,
                flags |-> buildFlags, env |-> BuildEnv(goos, goarch)])
         /\ IF e = NoErr
            THEN Continue("tar")
            ELSE Return(<<>>, "", e)
    /\ UNCHANGED <<callVars, env, disk, snapshot, locals, nextTmp, archives>>

\* BuildRelease, lines 139-142.
Tar ==
    /\ pc = "tar"
    /\ \E e \in TarOutcomes :
         /\ log' = Append(log, Event("Tar", e = NoErr))
         /\ IF e = NoErr
            THEN Continue("create")
            ELSE Return(<<>>, "", e)
    /\ UNCHANGED <<callVars, env, disk, snapshot, locals, nextTmp, compiles, archives>>

\* BuildRelease, lines 144-151.
Create ==
    /\ pc = "create"
    /\ LET tarPath == TarPath(releasePath, prefix, goos, goarch) IN
       \E e \in CreateOutcomes :
         /\ log' = Append(log, Event("Create", e = NoErr))
         /\ IF e = NoErr
            THEN /\ files' = WriteFile(tarPath, Content(calls, FALSE, {}), files)
                 /\ Continue("copy")
            ELSE /\ Return(<<>>, "", e)
                 /\ UNCHANGED files
    /\ UNCHANGED <<callVars, env, dirs, snapshot, locals, nextTmp, compiles, archives>>

\* Lines 153-157 with a failed copy emptying the release directory.
Copy_Rollback ==
    /\ pc = "copy"
    /\ LET tarPath == TarPath(releasePath, prefix, goos, goarch) IN
       \E e \in CopyOutcomes :
         /\ log' = Append(log, Event("Copy", e = NoErr))
         /\ IF e = NoErr
            THEN /\ files' = WriteFile(tarPath, Content(calls, TRUE, {}), files)
                 /\ archives' = Append(archives, tarPath)
                 /\ idx' = idx + 1
                 /\ Continue("parseTarget")
            ELSE /\ Return(<<>>, "", e)
                 /\ files' = RemoveAllFiles(releasePath, files)
                 /\ UNCHANGED <<archives, idx>>
    /\ UNCHANGED <<callVars, env, dirs, snapshot, buildFlags, binary, mainPath,
                   releasePath, goos, goarch, out, nextTmp, compiles>>

\* BuildRelease, lines 153-157.
Copy ==
    /\ pc = "copy"
    /\ LET tarPath == TarPath(releasePath, prefix, goos, goarch) IN
       \E e \in CopyOutcomes :
         /\ log' = Append(log, Event("Copy", e = NoErr))
         /\ IF e = NoErr
            THEN /\ files' = WriteFile(tarPath, Content(calls, TRUE, {}), files)
                 /\ archives' = Append(archives, tarPath)
                 /\ idx' = idx + 1
                 /\ Continue("parseTarget")
            ELSE /\ Return(<<>>, "", e)
                 /\ UNCHANGED <<files, archives, idx>>
    /\ UNCHANGED <<callVars, env, dirs, snapshot, buildFlags, binary, mainPath,
                   releasePath, goos, goarch, out, nextTmp, compiles>>

\* Lines 159-162 reached from inside the loop, after any target.
ChecksumSum_Early ==
    /\ pc = "parseTarget"
    /\ LET checksumPath == Join(releasePath, <<checksumTxt>>) IN
       \E e \in SumOutcomes :
         /\ log' = Append(log, Event("Sum", e = NoErr))
         /\ files' = IF e = NoErr
                     THEN Sum(releasePath, checksumPath, calls, files)
                     ELSE files
         /\ Return(releasePath, "", e)
    /\ UNCHANGED <<callVars, env, dirs, snapshot, locals, nextTmp, compiles, archives>>

\* BuildRelease, lines 159-162.
ChecksumSum ==
    /\ pc = "parseTarget"
    /\ idx > Len(targets)
    /\ LET checksumPath == Join(releasePath, <<checksumTxt>>) IN
       \E e \in SumOutcomes :
         /\ log' = Append(log, Event("Sum", e = NoErr))
         /\ files' = IF e = NoErr
                     THEN Sum(releasePath, checksumPath, calls, files)
                     ELSE files
         /\ Return(releasePath, "", e)
    /\ UNCHANGED <<callVars, env, dirs, snapshot, locals, nextTmp, compiles, archives>>

\* The names the manifest of directory d references, none when d holds no
\* manifest.
ManifestRefs(d, fs) ==
    IF Join(d, <<checksumTxt>>) \in DOMAIN fs
    THEN fs[Join(d, <<checksumTxt>>)].refs
    ELSE {}

\* The caller cancels ctx while the call runs: Build line 28, BuildRelease
\* line 74, the ctx parameter.
Cancel ==
    /\ pc \notin {"idle", "returned"}
    /\ ~CtxDone
    /\ log' = Append(log, Event("cancel", TRUE))
    /\ UNCHANGED <<pc, ret, temps, callVars, env, disk, snapshot, locals, nextTmp,
                   compiles, archives>>

\* The caller resumes; the call's locals are gone.
Finish ==
    /\ pc = "returned"
    /\ prev' = [call |-> call, args |-> args, ok |-> ret.err = NoErr,
                refs |-> IF call = "BuildRelease" /\ ret.err = NoErr
                         THEN ManifestRefs(releasePath, files) ELSE {}]
    /\ call' = "none"
    /\ pc' = "idle"
    /\ args' = <<>>
    /\ prefix' = ""
    /\ targets' = <<>>
    /\ buildFlags' = <<>>
    /\ binary' = ""
    /\ mainPath' = <<>>
    /\ releasePath' = <<>>
    /\ idx' = 0
    /\ goos' = ""
    /\ goarch' = ""
    /\ out' = <<>>
    /\ tmpDirs' = {}
    /\ deferred' = <<>>
    /\ nextTmp' = 0
    /\ compiles' = <<>>
    /\ archives' = <<>>
    /\ log' = <<>>
    /\ ret' = NoRet
    /\ files0' = files
    /\ dirs0' = dirs
    /\ UNCHANGED <<calls, env, disk>>

Next ==
    \/ \E o \in Outputs : CallBuild(o)
    \/ \E o \in Outputs, p \in Prefixes, t \in TargetLists : CallBuildRelease(o, p, t)
    \/ CallAgain
    \/ Setup
    \/ GenerateAll
    \/ PreBuild
    \/ Binary
    \/ DiscoverMain
    \/ BuildPath
    \/ BinaryName
    \/ ResetReleaseDir
    \/ MakeReleaseDir
    \/ ParseTargetStep
    \/ MkdirTemp
    \/ Compile
    \/ Tar
    \/ Create
    \/ Copy
    \/ ChecksumSum
    \/ Finish

Spec == Init /\ [][Next]_vars

\* The same calls under a caller that may cancel ctx while a call runs.
NextCancel ==
    \/ Next
    \/ Cancel

SpecCancel == Init /\ [][NextCancel]_vars

---------------------------------------------------------------------------
(* Vocabulary of the properties.                                           *)

Returned == pc = "returned"

InRelease == call = "BuildRelease"

Succeeded == Returned /\ ret.err = NoErr

Count(op, ok) == Cardinality({i \in DOMAIN log : log[i] = Event(op, ok)})

Ran(op) == Cardinality({i \in DOMAIN log : log[i].op = op})

LastEvent == log[Len(log)]

\* The release directory the caller's output argument stands for.
ExpectedReleaseDir == IF args.output = <<>> THEN <<"app", "release">> ELSE args.output

ExpectedPrefix == IF args.prefix = "" THEN "mars" ELSE args.prefix

\* The targets the call is to build: the caller's, or the host's own when the
\* caller gave none.
RequestedTargets ==
    IF args.targets = <<>> THEN << <<"linux", ":", "arm64">> >> ELSE args.targets

\* A token that has one ":" splits into exactly two parts.
WellFormed(t) == Cardinality({i \in DOMAIN t : t[i] = ":"}) = 1

ExpectedArchive(t) ==
    ExpectedReleaseDir
        \o << ExpectedPrefix \o "_" \o t[1] \o "_" \o t[3] \o ".tar.gz" >>

ManifestPath == ExpectedReleaseDir \o <<"checksum.txt">>

ArchiveNames == {Base(archives[i]) : i \in DOMAIN archives}

---------------------------------------------------------------------------
(* C1 *)

\* C1 (as claimed): after every BuildRelease call that returns without error,
\* for either kind of release directory and whatever it held before,
\* checksum.txt exists and references exactly the archives this call wrote.
C1_ManifestIsExactlyThisCallsArchives ==
    (InRelease /\ Succeeded) =>
        /\ ManifestPath \in DOMAIN files
        /\ files[ManifestPath].refs = ArchiveNames

\* The names the release directory held when the call began.
PriorNames ==
    {Base(f) : f \in {g \in DOMAIN files0 : Parent(g) = ExpectedReleaseDir}}

\* C1 (amended): after every BuildRelease call that returns without error,
\* checksum.txt exists and references every archive this call wrote; with an
\* empty output argument (the default directory, reset by the call) it
\* references nothing else, with a caller-supplied directory it references in
\* addition exactly the files the directory held before the call.
C1_ManifestCoversReleaseDir ==
    (InRelease /\ Succeeded) =>
        /\ ManifestPath \in DOMAIN files
        /\ files[ManifestPath].by = calls
        /\ files[ManifestPath].refs =
              ArchiveNames \cup (IF args.output = <<>> THEN {} ELSE PriorNames)

C1_Witness ==
    /\ InRelease /\ Succeeded
    /\ args.output = <<"dist">>
    /\ Len(archives) = 2
    /\ "old_linux_amd64.tar.gz" \in PriorNames
    /\ "old_linux_amd64.tar.gz" \in files[ManifestPath].refs
    /\ "old_linux_amd64.tar.gz" \notin ArchiveNames

---------------------------------------------------------------------------
(* C2 *)

\* C2: every target of a BuildRelease call yields exactly one archive, written
\* at {releaseDir}/{prefix}_{os}_{arch}.tar.gz with the project name standing
\* for an empty prefix; a successful call over n targets has written n such
\* archives, one per position of the list (an empty target list counts as the
\* host's one target; a target listed twice is written twice, at one path).
C2_OneArchivePerTarget ==
    InRelease =>
        /\ Len(archives) <= Len(RequestedTargets)
        /\ Count("Create", TRUE) \in {Len(archives), Len(archives) + 1}
        /\ \A i \in DOMAIN archives :
              /\ archives[i] = ExpectedArchive(RequestedTargets[i])
              /\ archives[i] \in DOMAIN files
              /\ files[archives[i]].by = calls
        /\ Succeeded =>
              /\ Len(archives) = Len(RequestedTargets)
              /\ Count("Create", TRUE) = Len(RequestedTargets)
              /\ \A i \in DOMAIN archives :
                    files[archives[i]] = Content(calls, TRUE, {})

C2_Witness ==
    /\ InRelease /\ Succeeded
    /\ args.prefix = ""
    /\ Len(args.targets) = 2
    /\ args.targets[1] # args.targets[2]
    /\ Len(archives) = 2

---------------------------------------------------------------------------
(* C3 *)

\* C3: a BuildRelease call with an empty target list invokes the compiler at
\* most once, always with GOOS and GOARCH set to the host's, and writes at
\* most one archive; when it returns without error it has invoked the
\* compiler exactly once and written exactly one archive.
C3_EmptyTargetsBuildHostOnce ==
    (InRelease /\ args.targets = <<>>) =>
        /\ Len(compiles) <= 1
        /\ Len(archives) <= 1
        /\ \A i \in DOMAIN compiles :
              compiles[i].env = << [k |-> "GOOS", v |-> "linux"],
                                   [k |-> "GOARCH", v |-> "arm64"] >>
        /\ pc \in {"tar", "create", "copy"} => Len(compiles) = 1
        /\ Succeeded => Len(compiles) = 1 /\ Len(archives) = 1

C3_Witness ==
    /\ InRelease /\ Succeeded
    /\ args.targets = <<>>
    /\ Len(compiles) = 1
    /\ Len(archives) = 1

---------------------------------------------------------------------------
(* C4 *)

\* The position of the first malformed token of the call, 0 when there is none.
FirstMalformed ==
    IF \E i \in DOMAIN targets : ~WellFormed(targets[i])
    THEN CHOOSE i \in DOMAIN targets :
            /\ ~WellFormed(targets[i])
            /\ \A j \in 1..(i - 1) : WellFormed(targets[j])
    ELSE 0

\* C4: in BuildRelease a token that does not split into exactly two parts
\* makes the call return the target-parse error, before a temporary directory
\* is created or the compiler invoked for that target, and no later target is
\* parsed, built or archived.
C4_MalformedTargetStopsTheRelease ==
    (InRelease /\ FirstMalformed > 0) =>
        /\ Ran("ParseTarget") <= FirstMalformed
        /\ Ran("MkdirTemp") < FirstMalformed
        /\ Len(compiles) < FirstMalformed
        /\ Len(archives) < FirstMalformed
        /\ Ran("ParseTarget") = FirstMalformed =>
              /\ Returned
              /\ ret.err = <<[t |-> "ErrInvalidTarget", op |-> "ParseTarget"]>>
              /\ ret.path = <<>>
              /\ LastEvent = Event("ParseTarget", FALSE)
        /\ Ran("Sum") = 0

C4_Witness ==
    /\ InRelease /\ Returned
    /\ Len(targets) = 2
    /\ FirstMalformed = 1
    /\ Ran("ParseTarget") = 1
    /\ ret.err = ErrInvalidTarget

---------------------------------------------------------------------------
(* C5 *)

\* C5: with no entry-point path configured, a Build call over a tree of zero
\* or several entry points never invokes the compiler and returns an error;
\* when the scan found several, the error is a CannotBuildAppError whose
\* chain holds the multiple-entry-points error; when it found none, the
\* scanner's error is returned as it is.
C5_BuildFailsWithoutOneEntryPoint ==
    (call = "Build" /\ conf.Main = <<>> /\ mains # 1) =>
        /\ compiles = <<>>
        /\ Ran("BuildPath") = 0
        /\ Returned => ret.err # NoErr /\ ret.binary = ""
        /\ (Returned /\ Ran("DiscoverOneMain") = 1 /\ mains > 1) =>
              /\ Head(ret.err).t = "CannotBuildAppError"
              /\ \E i \in 2..Len(ret.err) :
                    ret.err[i].t = "ErrMultipleMainPackagesFound"
        /\ (Returned /\ Ran("DiscoverOneMain") = 1 /\ mains = 0) =>
              ret.err = <<[t |-> "ErrMainNotFound", op |-> "DiscoverOneMain"]>>

C5_Witness ==
    /\ call = "Build" /\ Returned
    /\ conf.Main = <<>> /\ mains > 1
    /\ Ran("DiscoverOneMain") = 1
    /\ Head(ret.err).t = "CannotBuildAppError"

---------------------------------------------------------------------------
(* C6 *)

\* C6 (as claimed): when the compiler subprocess exits with a failure for a
\* target of BuildRelease, or entry-point discovery reports several entry
\* points, the error BuildRelease returns is a CannotBuildAppError carrying
\* the cause.
C6_ReleaseReclassifiesLikeBuild ==
    (InRelease /\ Returned /\ ret.err # NoErr
       /\ \/ LastEvent = Event("BuildPath", FALSE)
             /\ \E i \in DOMAIN ret.err : ret.err[i].t = "ExitError"
          \/ LastEvent = Event("DiscoverOneMain", FALSE) /\ mains > 1) =>
        Head(ret.err).t = "CannotBuildAppError"

---------------------------------------------------------------------------
(* C7 *)

\* discoverMain has run in this call and its configuration load succeeded.
ResolvedEntryPoint == Ran("Binary") >= 1 /\ Count("Config", TRUE) = 2

\* C7: with an entry-point path configured, entry-point resolution succeeds
\* with sourceRoot joined with that path, whatever the tree holds, and the
\* scanner is never invoked.
C7_ConfiguredEntryPointWins ==
    conf.Main # <<>> =>
        /\ Ran("DiscoverOneMain") = 0
        /\ ResolvedEntryPoint =>
              /\ mainPath = <<"app">> \o conf.Main
              /\ ~(Returned /\ LastEvent = Event("Config", TRUE))
        /\ \A i \in DOMAIN compiles : compiles[i].path = <<"app">> \o conf.Main

C7_Witness ==
    /\ conf.Main # <<>>
    /\ mains # 1
    /\ ResolvedEntryPoint
    /\ Len(compiles) = 1
    /\ mainPath = <<"app", "cmd", "marsd">>

---------------------------------------------------------------------------
(* C8 *)

ExpectedInjected ==
    << "-X github.com/cosmos/cosmos-sdk/version.Name=Mars",
       "-X github.com/cosmos/cosmos-sdk/version.AppName=marsd",
       "-X github.com/cosmos/cosmos-sdk/version.Version=v1",
       "-X github.com/cosmos/cosmos-sdk/version.Commit=abc",
       "-X github.com/x/mars/cmd/marsd/cmd.ChainID=mars-1" >>

\* C8: every flag set preBuild returns is [-mod, readonly, -ldflags, L], L
\* being the configured linker flags in their order followed by the five
\* injected pairs Name, AppName, Version, Commit, ChainID, joined by spaces;
\* a failed preBuild returns no flags.
C8_FlagSetShape ==
    /\ buildFlags # <<>> =>
          /\ Count("ModVerify", TRUE) = 1
          /\ buildFlags = << "-mod", "readonly", "-ldflags",
                             JoinWith(conf.LDFlags \o ExpectedInjected, " ") >>
    /\ (Ran("Config") >= 1 /\ Count("ModVerify", TRUE) = 0) => buildFlags = <<>>
    /\ \A i \in DOMAIN compiles : compiles[i].flags = buildFlags /\ buildFlags # <<>>

C8_Witness ==
    /\ Len(conf.LDFlags) = 2
    /\ Len(buildFlags) = 4
    /\ buildFlags[4] = "-s -w -X main.x=1 "
          \o "-X github.com/cosmos/cosmos-sdk/version.Name=Mars "
          \o "-X github.com/cosmos/cosmos-sdk/version.AppName=marsd "
          \o "-X github.com/cosmos/cosmos-sdk/version.Version=v1 "
          \o "-X github.com/cosmos/cosmos-sdk/version.Commit=abc "
          \o "-X github.com/x/mars/cmd/marsd/cmd.ChainID=mars-1"
    /\ Len(compiles) = 1

---------------------------------------------------------------------------
(* C9 *)

\* C9 (as claimed): two successive successful BuildRelease calls with
\* identical arguments leave manifests that reference the same set of file
\* names, for the default and for a caller-supplied release directory alike.
C9_RepeatedReleaseSameManifest ==
    (InRelease /\ Succeeded /\ prev.call = "BuildRelease" /\ prev.ok
       /\ prev.args = args) =>
        files[ManifestPath].refs = prev.refs

\* C9 (amended): of two successive successful BuildRelease calls with
\* identical arguments, the second manifest references the names of the first
\* when the output argument is empty; with a caller-supplied directory it
\* references those names and checksum.txt, the manifest the first call left.
C9_RepeatedReleaseManifest ==
    (InRelease /\ Succeeded /\ prev.call = "BuildRelease" /\ prev.ok
       /\ prev.args = args) =>
        files[ManifestPath].refs =
            prev.refs \cup (IF args.output = <<>> THEN {} ELSE {"checksum.txt"})

C9_Witness ==
    /\ InRelease /\ Succeeded
    /\ prev.call = "BuildRelease" /\ prev.ok /\ prev.args = args
    /\ args.output = <<"dist">>
    /\ "checksum.txt" \notin prev.refs
    /\ files[ManifestPath].refs = prev.refs \cup {"checksum.txt"}

---------------------------------------------------------------------------
(* C10 *)

\* The paths this call may write: the archives of the targets reached so far
\* and the manifest.
WritablePaths ==
    {ExpectedArchive(RequestedTargets[i]) :
        i \in {j \in DOMAIN RequestedTargets :
                  j <= Ran("ParseTarget") /\ WellFormed(RequestedTargets[j])}}
    \cup {ManifestPath}

\* Position of the first event of operation op in the log, 0 when none.
FirstAt(op) ==
    IF \E i \in DOMAIN log : log[i].op = op
    THEN CHOOSE i \in DOMAIN log :
            log[i].op = op /\ \A j \in 1..(i - 1) : log[j].op # op
    ELSE 0

\* C10: BuildRelease removes the release directory only when the caller's
\* output directory is empty: the default {sourceRoot}/release is then removed
\* and recreated before the first target, so nothing it held survives; a
\* caller-supplied directory is never removed, and every file that existed
\* before the call, other than an archive or checksum.txt this call writes,
\* is left as it was.
C10_ResetOnlyDefaultReleaseDir ==
    InRelease =>
        /\ Ran("RemoveAll") > 0 => args.output = <<>>
        /\ (args.output = <<>> /\ Ran("MkdirAll") > 0) =>
              /\ Count("RemoveAll", TRUE) = 1
              /\ FirstAt("RemoveAll") < FirstAt("MkdirAll")
        /\ (args.output = <<>> /\ Ran("ParseTarget") > 0) =>
              /\ FirstAt("MkdirAll") < FirstAt("ParseTarget")
              /\ \A f \in DOMAIN files :
                    IsPrefix(<<"app", "release">>, f) => files[f].by = calls
        /\ args.output # <<>> =>
              /\ Ran("RemoveAll") = 0
              /\ dirs0 \subseteq dirs
              /\ \A f \in DOMAIN files0 :
                    /\ f \in DOMAIN files
                    /\ f \notin WritablePaths => files[f] = files0[f]
        /\ \A f \in DOMAIN files0 :
              ~IsPrefix(ExpectedReleaseDir, f) =>
                  f \in DOMAIN files /\ files[f] = files0[f]

C10_Witness ==
    /\ InRelease /\ Succeeded
    /\ args.output = <<"dist">>
    /\ <<"dist", "old_linux_amd64.tar.gz">> \in DOMAIN files0
    /\ <<"dist", "checksum.txt">> \in DOMAIN files0
    /\ files[<<"dist", "checksum.txt">>] # files0[<<"dist", "checksum.txt">>]
    /\ Len(archives) = 2

C10_WitnessReset ==
    /\ InRelease /\ Succeeded
    /\ args.output = <<>>
    /\ <<"app", "release", "old_linux_amd64.tar.gz">> \in DOMAIN files0
    /\ <<"app", "release", "old_linux_amd64.tar.gz">> \notin DOMAIN files

---------------------------------------------------------------------------
(* C11 *)

\* The call has returned the failure of its last step, operation op.
FailedAt(op) == Returned /\ ret.err # NoErr /\ LastEvent = Event(op, FALSE)

Wrapped(e) == e # NoErr /\ Head(e).t = "CannotBuildAppError"

\* C11 (as claimed): when the tidy or the verify step fails, by a non-zero
\* exit included, Build and BuildRelease return the dependency step's own
\* error, not wrapped as CannotBuildAppError; only a failure of the compiler
\* subprocess and a multiple-entry-points failure are ever wrapped.
C11_DependencyErrorsStayUnwrapped ==
    /\ \A op \in {"ModTidy", "ModVerify"} :
          FailedAt(op) => ret.err \in SubprocessFailures(op)
    /\ (Returned /\ Wrapped(ret.err)) =>
          \/ LastEvent = Event("BuildPath", FALSE)
          \/ LastEvent = Event("DiscoverOneMain", FALSE) /\ mains > 1

---------------------------------------------------------------------------
(* C12 *)

\* The steps of one iteration of the loop over the targets.
LoopOps == {"ParseTarget", "MkdirTemp", "BuildPath", "Tar", "Create", "Copy"}

Failures == Cardinality({i \in DOMAIN log : ~log[i].ok})

\* C12: when BuildRelease fails at its k-th target, in the parse, the
\* temporary directory, the compile, the archive, the file creation or the
\* copy, the archives of targets 1..k-1 are in the release directory when it
\* returns (complete, unless target k names the same archive and had begun
\* to rewrite it), the failed step is the last step of the call, so no later
\* target is attempted, and the call removes nothing after creating the
\* release directory.
C12_FailureKeepsEarlierArchives ==
    (InRelease /\ \E op \in LoopOps : FailedAt(op)) =>
        LET k == Ran("ParseTarget") IN
        /\ k \in 1..Len(RequestedTargets)
        /\ Len(archives) = k - 1
        /\ \A i \in 1..(k - 1) :
              /\ archives[i] = ExpectedArchive(RequestedTargets[i])
              /\ archives[i] \in DOMAIN files
              /\ files[archives[i]].by = calls
              /\ (Ran("Create") < k
                    \/ archives[i] # ExpectedArchive(RequestedTargets[k])) =>
                    files[archives[i]].full
        /\ \A op \in LoopOps : Ran(op) <= k
        /\ Failures = 1
        /\ Ran("Sum") = 0
        /\ Ran("RemoveAll") <= 1
        /\ Ran("RemoveAll") = 1 => FirstAt("RemoveAll") < FirstAt("MkdirAll")

C12_Witness ==
    /\ InRelease /\ FailedAt("Copy")
    /\ Ran("ParseTarget") = 2
    /\ Len(archives) = 1
    /\ archives[1] \in DOMAIN files
    /\ files[archives[1]].full
    /\ ~files[ExpectedArchive(RequestedTargets[2])].full

---------------------------------------------------------------------------
(* C13 *)

\* The temporary directories os.MkdirTemp has handed to this call.
CreatedTmpDirs == {<<"tmp", ToString(i)>> : i \in 0..(nextTmp - 1)}

\* C13: when BuildRelease returns, with or without an error, none of the
\* temporary build directories that call created exists any more.
C13_NoTmpDirSurvivesReturn ==
    InRelease =>
        /\ nextTmp = Count("MkdirTemp", TRUE)
        /\ tmpDirs \subseteq CreatedTmpDirs
        /\ Returned => tmpDirs \cap CreatedTmpDirs = {}

C13_Witness ==
    /\ InRelease /\ Returned
    /\ ret.err # NoErr
    /\ nextTmp = 2
    /\ tmpDirs = {}

---------------------------------------------------------------------------
(* C14 *)

\* C14 (as claimed): the temporary build directory of a target is removed on
\* every exit path of that target's iteration, so none exists when the next
\* iteration begins, and at every point of a BuildRelease call at most one
\* temporary directory created by the call exists.
C14_AtMostOneTmpDir ==
    InRelease =>
        /\ Cardinality(tmpDirs) <= 1
        /\ pc = "parseTarget" => tmpDirs = {}

---------------------------------------------------------------------------
(* C15 *)

\* Every event of the log before the first run of the checksum writer, the
\* whole log when it has not run.
BeforeSum ==
    IF Ran("Sum") = 0 THEN DOMAIN log
    ELSE {i \in DOMAIN log : i < FirstAt("Sum")}

\* C15: BuildRelease invokes the checksum writer at most once per call, as
\* its last step, after every requested target has been parsed, compiled,
\* archived and written (the file complete); when any earlier step of the
\* call fails the writer is not invoked and checksum.txt is not written by
\* that call.
C15_ChecksumOnceAfterAllTargets ==
    InRelease =>
        /\ Ran("Sum") <= 1
        /\ Ran("Sum") = 1 =>
              /\ Returned
              /\ LastEvent.op = "Sum"
              /\ \A i \in BeforeSum : log[i].ok
              /\ \A op \in LoopOps : Count(op, TRUE) = Len(RequestedTargets)
              /\ Len(archives) = Len(RequestedTargets)
              /\ \A i \in DOMAIN archives :
                    /\ archives[i] = ExpectedArchive(RequestedTargets[i])
                    /\ archives[i] \in DOMAIN files
                    /\ files[archives[i]].full
        /\ (\E i \in BeforeSum : ~log[i].ok) =>
              /\ Ran("Sum") = 0
              /\ ManifestPath \in DOMAIN files =>
                    /\ ManifestPath \in DOMAIN files0
                    /\ files[ManifestPath] = files0[ManifestPath]

C15_Witness ==
    /\ InRelease /\ Returned
    /\ Count("Sum", TRUE) = 1
    /\ Len(RequestedTargets) = 2
    /\ Len(archives) = 2
    /\ files[ManifestPath].by = calls

C15_WitnessFailure ==
    /\ InRelease /\ FailedAt("Tar")
    /\ Ran("ParseTarget") = 2
    /\ args.output = <<"dist">>
    /\ ManifestPath \in DOMAIN files
    /\ Ran("Sum") = 0

---------------------------------------------------------------------------
(* C16 *)

\* C16: in Build and in BuildRelease the tidy step runs before the verify
\* step and both have succeeded before the compiler is first invoked; each
\* has run at most once when the call returns (the log only grows, so the
\* count at return bounds every earlier one); a failed tidy means verify is
\* not run, and a failure of either ends the call with no flag set and no
\* compiler invocation.
C16_TidyThenVerifyThenCompile ==
    /\ Returned => Ran("ModTidy") <= 1 /\ Ran("ModVerify") <= 1
    /\ FirstAt("ModVerify") > 0 =>
          /\ Count("ModTidy", TRUE) = 1
          /\ FirstAt("ModTidy") < FirstAt("ModVerify")
    /\ compiles # <<>> =>
          /\ Count("ModVerify", TRUE) = 1
          /\ FirstAt("ModVerify") < FirstAt("BuildPath")
    /\ Len(compiles) = Ran("BuildPath")
    /\ \A op \in {"ModTidy", "ModVerify"} :
          (\E i \in DOMAIN log : log[i] = Event(op, FALSE)) =>
              /\ FailedAt(op)
              /\ buildFlags = <<>>
              /\ compiles = <<>>

C16_Witness ==
    /\ InRelease
    /\ FailedAt("ModVerify")
    /\ Count("ModTidy", TRUE) = 1

C16_WitnessCompiled ==
    /\ call = "Build"
    /\ Ran("BuildPath") = 1
    /\ FirstAt("ModTidy") < FirstAt("ModVerify")

---------------------------------------------------------------------------
(* C17 *)

\* C17 (as claimed): every compiler invocation of Build or BuildRelease is
\* preceded, in the same call, by a successful run of the code generator, and
\* a failed generator ends the call with no dependency step and no compiler
\* invocation.
C17_GeneratorBeforeEveryCompile ==
    /\ Ran("BuildPath") >= 1 =>
          /\ Count("generateAll", TRUE) = 1
          /\ FirstAt("generateAll") < FirstAt("BuildPath")
    /\ Count("generateAll", FALSE) >= 1 =>
          /\ FailedAt("generateAll")
          /\ Ran("ModTidy") = 0
          /\ Ran("ModVerify") = 0
          /\ Ran("BuildPath") = 0

---------------------------------------------------------------------------
(* C18 *)

\* The events of the call that follow the cancellation of ctx.
AfterCancel == {i \in DOMAIN log : CtxDone /\ i > FirstAt("cancel")}

\* C18 (as claimed): once ctx is cancelled during a BuildRelease call, during
\* a compile, during the archive copy or between steps, the call returns
\* only with a failure, of the cancellation kind unless a step that does not
\* take ctx failed on its own, and after the cancellation no compile runs
\* and no archive is written.
C18_CancellationEndsTheRelease ==
    (InRelease /\ CtxDone) =>
        /\ Returned =>
              /\ ret.err # NoErr
              /\ LastEvent.op \in {"ModTidy", "ModVerify", "BuildPath"} =>
                    ErrorsAs(ret.err, "context.Canceled")
        /\ \A i \in AfterCancel :
              /\ log[i] # Event("BuildPath", TRUE)
              /\ log[i] # Event("Copy", TRUE)

---------------------------------------------------------------------------
(* C19 *)

\* C19 (as claimed): BuildRelease returns a non-empty release path exactly
\* when it returns no error; on every failure, a failure of the checksum
\* writer after all targets succeeded included, the path is empty.
C19_PathIffNoError ==
    (InRelease /\ Returned) => (ret.path # <<>> <=> ret.err = NoErr)

---------------------------------------------------------------------------
(* C20 *)

\* The steps of BuildRelease that come before the release directory is
\* resolved: setup, flag assembly, binary name, entry point.
EarlyOps == {"setup", "Config", "ID", "ModTidy", "ModVerify", "Binary",
             "DiscoverOneMain"}

\* C20: when BuildRelease fails in setup, in flag assembly (configuration,
\* chain id, tidy, verify), in the binary name or in the entry point, the
\* release directory, the default one included, holds exactly the files and
\* directories it held before the call: nothing removed, nothing created.
\* Each of these steps has run at most once when the call returns (the
\* configuration is loaded by flag assembly and again by entry-point
\* resolution; the log only grows, so the count at return bounds every
\* earlier one), all before the release directory is removed or created.
C20_EarlyFailureLeavesReleaseDir ==
    InRelease =>
        /\ (\E op \in EarlyOps : FailedAt(op)) =>
              /\ Under(ExpectedReleaseDir, DOMAIN files)
                    = Under(ExpectedReleaseDir, DOMAIN files0)
              /\ \A f \in Under(ExpectedReleaseDir, DOMAIN files) :
                    files[f] = files0[f]
              /\ Under(ExpectedReleaseDir, dirs) = Under(ExpectedReleaseDir, dirs0)
              /\ Ran("RemoveAll") = 0
              /\ Ran("MkdirAll") = 0
              /\ Ran("MkdirTemp") = 0
              /\ releasePath = <<>>
        /\ Returned =>
              /\ \A op \in EarlyOps \ {"Config"} : Ran(op) <= 1
              /\ Ran("Config") <= 2
        /\ \A j \in DOMAIN log :
              log[j].op \in {"RemoveAll", "MkdirAll"} =>
                  \A i \in DOMAIN log :
                      log[i].op \in EarlyOps => i < j /\ log[i].ok

C20_Witness ==
    /\ InRelease
    /\ FailedAt("DiscoverOneMain")
    /\ args.output = <<>>
    /\ \E f \in DOMAIN files : IsPrefix(<<"app", "release">>, f)
    /\ <<"app", "release">> \in dirs

====
